---- MODULE Spec2Model ----
(***************************************************************************)
(* SideDrawer Zoho widget: the OAuth / session lifecycle of SideDrawerAuth  *)
(* (one opener window, the popups it opens, the shared token storage) and   *)
(* the provider requests that use the stored access token.                  *)
(*                                                                          *)
(* Times are milliseconds, as in the code (Date.now()); the clock advances  *)
(* in steps of TickMs.  Values that went through the key-value stores are   *)
(* what JSON serialisation leaves of them: an undefined field is the string *)
(* "undefined" (a falsy value), the number NaN is stored as null, which     *)
(* arithmetic reads as 0.                                                   *)
(***************************************************************************)
EXTENDS Integers, FiniteSets, Sequences, TLC

VARIABLES
    status,        \* ConnectionStatus shown by the opener window
    pc,            \* where the opener's page load stands
    urlCode,       \* what the URL of the current load carries
    checkedSession,\* history: checkConnection was evaluated during this load
    expiredSeen,   \* history: checkConnection found the stored access token expired
    sdSession,     \* host-session record (sdSession): access token half
    refreshTok,    \* localStorage sidedrawer_refresh_token
    now,           \* Date.now()
    loadCalls,     \* history: token-endpoint calls made by the opener since its load
    failedRefresh, \* history: a refresh attempt failed and no connect was started since
    popupSeq,      \* number of popups opened so far
    curPopup,      \* handle of the popup of the current attempt (0: none)
    curState,      \* the state value of the current attempt (0: none)
    popupSt,       \* popup handle -> where that popup stands
    authState,     \* popup handle -> the state value its authorization URL carries
    accepted,      \* history: popup handle -> messages of it the opener processed
    exchanged,     \* history: popup handle -> submissions of its code for tokens
    inbox,         \* cross-window messages in flight to the opener
    widgets,       \* widget instances sharing the stores: where each stands
    zohoInitialized,\* this.zohoInitialized: the host SDK is there
    localSession,  \* localStorage: the session record kept when it is not
    backendUsed,   \* which store the last save wrote the session record to
    cfgIn,         \* what the credential sources hold at this load
    cfgOut,        \* what credential resolution returned
    setupRecords,  \* the records of the host's SD_Widget_Setup module
    setupSeq,      \* number of records the module has created so far
    callers,       \* the widget sessions that use the Setup API
    wizard,        \* this.state of the tenant-creation wizard
    cardElement,   \* stripeService.cardElement and the timer that creates it
    tasks,         \* the wizard's requests that are awaiting their response
    sent,          \* history: what the wizard has done so far
    fetched,       \* history: the URLs this page load has requested
    last           \* history: the operation that made the last step

vars == <<status, pc, urlCode, checkedSession, expiredSeen, sdSession,
          refreshTok, now,
          loadCalls, failedRefresh, popupSeq, curPopup, curState,
          popupSt, authState, accepted, exchanged, inbox, widgets,
          zohoInitialized, localSession, backendUsed, cfgIn, cfgOut,
          setupRecords, setupSeq, callers, wizard, cardElement, tasks, sent,
          fetched, last>>

\* the variables of the Setup API, and those of the tenant-creation wizard
\* and of the provider requests
SetupVars == <<setupRecords, setupSeq, callers>>
WizardVars == <<wizard, cardElement, tasks, sent, fetched>>

----------------------------------------------------------------------------
(* Bounds of the model *)

MaxTicks == 2
MaxPopups == 2
MaxSkewMs == 1000
TickMs == 5 * 60 * 1000

(* Inputs *)
AccessTokens == {"t2"}
RefreshTokens == {"r2"}
ExpiresInChoices == {600}
PopupOrigin == "https://widget"
Popups == 1..MaxPopups

----------------------------------------------------------------------------
(* Token Store *)

NoSession == [accessToken |-> "null", expiresAt |-> 0, tokenType |-> "null"]

Truthy(v) == v \notin {"null", "undefined", ""}

\* a 2xx token response, and the JSON error body of a non-2xx one
TokenResponses ==
    { [access_token |-> a, expires_in |-> e] : a \in AccessTokens, e \in ExpiresInChoices }
    \cup { [access_token |-> a, expires_in |-> e, refresh_token |-> r] :
             a \in AccessTokens, e \in ExpiresInChoices, r \in RefreshTokens }
ErrorBody == [error |-> "invalid_grant"]

Field(tokenData, f, default) ==
    IF f \in DOMAIN tokenData THEN tokenData[f] ELSE default

bufferTime == 5 * 60 * 1000

isTokenExpiredStrict(expiresAt, t) == t > (expiresAt - bufferTime)
isTokenExpired(expiresAt, t) == t >= (expiresAt - bufferTime)

\* the sessionData object saveTokens builds
sessionDataNoToken(tokenData, t) ==
    [accessToken |-> "undefined",
     expiresAt |-> IF "expires_in" \in DOMAIN tokenData
                   THEN t + (tokenData.expires_in * 1000) ELSE 0,
     tokenType |-> "Bearer"]
SessionData(tokenData, t) ==
    [accessToken |-> Field(tokenData, "access_token", "undefined"),
     expiresAt |-> IF "expires_in" \in DOMAIN tokenData
                   THEN t + (tokenData.expires_in * 1000) ELSE 0,
     tokenType |-> "Bearer"]

\* the refresh token saveTokens leaves in localStorage
refreshAlwaysWritten(tokenData, old) ==
    Field(tokenData, "refresh_token", "undefined")
RefreshAfterSave(tokenData, old) ==
    IF Truthy(Field(tokenData, "refresh_token", "undefined"))
    THEN tokenData.refresh_token ELSE old

saveTokens(tokenData) ==
    /\ sdSession' = SessionData(tokenData, now)
    /\ refreshTok' = RefreshAfterSave(tokenData, refreshTok)

getAccessToken(session) ==
    IF session # NoSession THEN session.accessToken ELSE "null"

getRefreshToken(stored) == stored

clearSessionOnly ==
    /\ sdSession' = NoSession
    /\ UNCHANGED refreshTok
clear ==
    /\ sdSession' = NoSession
    /\ refreshTok' = "null"

----------------------------------------------------------------------------
(* Cross-window messages *)

NoMsg == [type |-> "none"]

Message(src, origin, type, st, tokens) ==
    [src |-> src, origin |-> origin, type |-> type, state |-> st,
     tokens |-> tokens]

\* the token set a message not posted by the current popup carries
StrayTokens ==
    [access_token |-> "t9", expires_in |-> 600, refresh_token |-> "r9"]

Did(op) == last' = [op |-> op, msg |-> NoMsg]

----------------------------------------------------------------------------
(* Credential resolution (setup-api.js)                                     *)

\* a || b
Or(a, b) == IF Truthy(a) THEN a ELSE b

NoRecord == [none |-> TRUE]
NoCredentials == [source |-> "none"]
Pending == [source |-> "pending"]

\* the first record of the SD_Widget_Setup module, when there is one
SetupRecords ==
    { [Client_Id__c |-> c, Environment__c |-> e, Redirect_Uri__c |-> u] :
        c \in {"", "A"}, e \in {"", "sandbox", "production"},
        u \in {"", "uA"} }

\* what ZOHO.CRM.CONFIG.getVariables() gives, when it gives anything
WidgetVariables ==
    { [client_id |-> c, environment |-> e, redirect_uri |-> u] :
        c \in {"", "B"}, e \in {"", "production"}, u \in {"", "uB"} }

\* the URL's query parameters, and the configuration kept in localStorage
UrlParameters ==
    { [clientId |-> c, environment |-> "", redirectUri |-> u] :
        c \in {"", "C"}, u \in {"", "uC"} }
StoredConfigs ==
    { [clientId |-> "D", environment |-> "production", redirectUri |-> "uD"] }

NoSources ==
    [standalone |-> FALSE, record |-> NoRecord, widgetConfig |-> NoRecord,
     urlParams |-> NoRecord, stored |-> NoRecord]

\* outside the host there is no SDK: no setup module and no widget variables
Sources ==
    { [standalone |-> st, record |-> r, widgetConfig |-> w, urlParams |-> q,
       stored |-> l] :
        st \in BOOLEAN, r \in SetupRecords \cup {NoRecord},
        w \in WidgetVariables \cup {NoRecord},
        q \in UrlParameters \cup {NoRecord},
        l \in StoredConfigs \cup {NoRecord} }
    \ { in \in [standalone : {TRUE}, record : SetupRecords \cup {NoRecord},
                 widgetConfig : WidgetVariables \cup {NoRecord},
                 urlParams : UrlParameters \cup {NoRecord},
                 stored : StoredConfigs \cup {NoRecord}] :
            in.record # NoRecord \/ in.widgetConfig # NoRecord }

\* getSetupConfig(): null, or the config read from the first record
getSetupConfig(standalone, record) ==
    IF standalone THEN NoCredentials
    ELSE IF record = NoRecord THEN NoCredentials
    ELSE [clientId |-> Or(record.Client_Id__c, "null"),
          environment |-> Or(record.Environment__c, "null"),
          redirectUri |-> Or(record.Redirect_Uri__c, "null"),
          source |-> "record"]

\* getCredentials(): the test that takes the custom module's configuration
customModuleNever(config) == FALSE
customModuleUsed(config) ==
    config # NoCredentials /\ Truthy(config.clientId)

getCredentials(standalone, record, widgetConfig, stored) ==
    IF standalone THEN NoCredentials
    ELSE LET customModuleConfig == getSetupConfig(standalone, record) IN
      IF customModuleUsed(customModuleConfig)
      THEN [clientId |-> customModuleConfig.clientId,
            environment |-> customModuleConfig.environment,
            redirectUri |-> customModuleConfig.redirectUri,
            source |-> "custom_module"]
      ELSE IF ~standalone /\ widgetConfig # NoRecord
                /\ Truthy(widgetConfig.client_id)
      THEN [clientId |-> widgetConfig.client_id,
            environment |-> Or(widgetConfig.environment, "sandbox"),
            redirectUri |-> widgetConfig.redirect_uri,
            source |-> "widget_variables"]
      ELSE IF standalone /\ stored # NoRecord /\ Truthy(stored.clientId)
      THEN [clientId |-> stored.clientId,
            environment |-> Or(stored.environment, "sandbox"),
            redirectUri |-> stored.redirectUri,
            source |-> "localStorage"]
      ELSE NoCredentials

\* the widget's resolution: getCredentials, then the URL's parameters, then
\* the configuration kept in localStorage
resolve(in) ==
    LET c == getCredentials(in.standalone, in.record, in.widgetConfig,
                            in.stored) IN
    IF c # NoCredentials THEN c
    ELSE IF in.urlParams # NoRecord /\ Truthy(in.urlParams.clientId)
    THEN [clientId |-> in.urlParams.clientId,
          environment |-> Or(in.urlParams.environment, "sandbox"),
          redirectUri |-> in.urlParams.redirectUri,
          source |-> "url"]
    ELSE IF in.stored # NoRecord /\ Truthy(in.stored.clientId)
    THEN [clientId |-> in.stored.clientId,
          environment |-> Or(in.stored.environment, "sandbox"),
          redirectUri |-> in.stored.redirectUri,
          source |-> "localStorage"]
    ELSE NoCredentials

\* a page load finds the sources as they are; they are read once per load
loadSources(in) ==
    /\ cfgIn = NoSources /\ cfgOut = Pending
    /\ cfgIn' = in
    /\ cfgOut' = Pending
    /\ Did("loadSources")
    /\ UNCHANGED <<status, pc, urlCode, checkedSession, expiredSeen,
                   sdSession, refreshTok, now, loadCalls, failedRefresh,
                   popupSeq, curPopup, curState, popupSt, authState, accepted,
                   exchanged, inbox, widgets, zohoInitialized, localSession,
                   backendUsed, SetupVars, WizardVars>>

resolveCredentials ==
    /\ cfgOut = Pending
    /\ cfgOut' = resolve(cfgIn)
    /\ Did("resolveCredentials")
    /\ UNCHANGED <<status, pc, urlCode, checkedSession, expiredSeen,
                   sdSession, refreshTok, now, loadCalls, failedRefresh,
                   popupSeq, curPopup, curState, popupSt, authState, accepted,
                   exchanged, inbox, widgets, zohoInitialized, localSession,
                   backendUsed, cfgIn, SetupVars, WizardVars>>

----------------------------------------------------------------------------
(* The Setup API (setup-api.js): who may write the shared configuration     *)
(* record, and how it is written.  A caller is one widget session: a page   *)
(* in some browser, inside the host or standalone, with its own             *)
(* localStorage.                                                            *)

Callers == {"a", "b"}
MaxCalls == 2

NoUser == [none |-> TRUE]
Closed == [closed |-> TRUE]

\* what getCurrentUser() reports of the user: users[0] of its answer
HostUsers ==
    { [role |-> "Administrator", roleId |-> "r1",
       profile |-> "Administrator", profileId |-> "1100000000001",
       admin |-> TRUE],
      [role |-> "Sales Rep", roleId |-> "r2",
       profile |-> "Standard", profileId |-> "p2", admin |-> FALSE],
      [role |-> "Sales Rep", roleId |-> "r2",
       profile |-> "Sales Manager", profileId |-> "p3", admin |-> FALSE] }

\* the user holds the host's Administrator profile
IsAdministrator(user) == user.profile = "Administrator"

\* String.prototype.toLowerCase / toUpperCase / includes / trim on the
\* strings of the model
toLowerCase(str) ==
    CASE str = "Administrator" -> "administrator"
      [] str = "Sales Rep" -> "sales rep"
      [] str = "Standard" -> "standard"
      [] str = "Sales Manager" -> "sales manager"
      [] str = "Production" -> "production"
      [] OTHER -> str
toUpperCase(str) ==
    CASE str = "r1" -> "R1"
      [] str = "r2" -> "R2"
      [] str = "p2" -> "P2"
      [] str = "p3" -> "P3"
      [] OTHER -> str
includes(str, sub) ==
    \/ str = sub
    \/ <<str, sub>> \in { <<"administrator", "admin">>,
                          <<"sales manager", "manager">>,
                          <<"https://user-api-sbx.sidedrawersbx.com", "sbx">> }
trim(str) ==
    CASE str = "E " -> "E"
      [] str = " " -> ""
      [] OTHER -> str

\* where a session runs: inside the host or standalone, what became of the
\* host SDK, the user, and the ?admin=true / sd_force_admin override
Environments ==
    { [standalone |-> TRUE, sdk |-> "absent", user |-> NoUser,
       manualAdmin |-> FALSE] }
    \cup [standalone : {FALSE}, sdk : {"absent", "notReady", "throws"},
          user : {NoUser}, manualAdmin : BOOLEAN]
    \cup [standalone : {FALSE}, sdk : {"ready"},
          user : HostUsers \cup {NoUser}, manualAdmin : BOOLEAN]

\* inside the host with the SDK ready, no override: an Administrator and a
\* standard user
HostEnvironments ==
    { env \in Environments :
        /\ env.sdk = "ready" /\ ~env.manualAdmin /\ env.user # NoUser
        /\ env.user.profile \in {"Administrator", "Standard"} }

\* the role and profile tests that follow the override
isAdmin(userData) ==
    LET roleLower == toLowerCase(userData.role)
        profileLower == toLowerCase(userData.profile)
        roleIdUpper == toUpperCase(userData.roleId)
        profileIdUpper == toUpperCase(userData.profileId)
    IN  \/ roleLower = "administrator"
        \/ roleLower = "admin"
        \/ roleIdUpper = "ADMIN"
        \/ includes(roleIdUpper, "ADMIN")
        \/ userData.admin
        \/ includes(profileLower, "admin")
        \/ includes(profileLower, "administrator")
        \/ includes(profileLower, "manager")
        \/ includes(profileLower, "management")
        \/ includes(profileIdUpper, "ADMIN")
        \/ profileIdUpper = "1100000000001"

\* ?admin=true in the URL, or sd_force_admin in localStorage
manualOverride(env) == env.manualAdmin

checkUserHasManageOrgPermission(env) ==
    IF env.standalone THEN TRUE
    ELSE IF env.sdk = "absent" THEN FALSE
    ELSE IF env.sdk = "notReady" THEN FALSE
    ELSE IF env.sdk = "throws" THEN FALSE
    ELSE IF env.user = NoUser THEN FALSE
    ELSE IF manualOverride(env) THEN TRUE
    ELSE isAdmin(env.user)

\* SetupModal.checkPermission
checkPermission(env) ==
    IF env.standalone THEN TRUE ELSE checkUserHasManageOrgPermission(env)

\* the module is there; reading it throws where the SDK is not
checkSetupModuleExists(env) == ~env.standalone /\ env.sdk = "ready"

\* the configurations a caller asks to save
SaveConfigs ==
    { [clientId |-> "A", environment |-> "sandbox", redirectUri |-> "uA"],
      [clientId |-> "E ", environment |-> "Production",
       redirectUri |-> "uE"],
      [clientId |-> " ", environment |-> "sandbox", redirectUri |-> "uA"] }

\* the required fields of saveSetupConfig
validConfig(config) ==
    /\ Truthy(config.clientId) /\ Truthy(trim(config.clientId))
    /\ Truthy(config.environment)
    /\ toLowerCase(config.environment) \in {"sandbox", "production"}
    /\ Truthy(config.redirectUri) /\ Truthy(trim(config.redirectUri))

setupData(config) ==
    [Client_Id__c |-> trim(config.clientId),
     Environment__c |-> toLowerCase(config.environment),
     Redirect_Uri__c |-> trim(config.redirectUri)]

NewCaller ==
    [env |-> Closed, pc |-> "idle", config |-> NoRecord, existing |-> 0,
     outcome |-> "none", granted |-> "unknown", stored |-> NoRecord,
     got |-> Pending, writes |-> 0, calls |-> 0]

InitSetup ==
    /\ setupRecords = <<>>
    /\ setupSeq = 0
    /\ callers = [u \in Callers |-> NewCaller]

\* response.data[0] of getRecords, and the id getSetupConfig reports
firstRecord == IF setupRecords = <<>> THEN NoRecord ELSE Head(setupRecords)
existingId(env) ==
    IF checkSetupModuleExists(env) /\ setupRecords # <<>>
    THEN Head(setupRecords).id ELSE 0

\* everything but the Setup API's variables and the history variable last
OutsideSetup ==
    <<status, pc, urlCode, checkedSession, expiredSeen, sdSession,
      refreshTok, now, loadCalls, failedRefresh, popupSeq, curPopup,
      curState, popupSt, authState, accepted, exchanged, inbox, widgets,
      zohoInitialized, localSession, backendUsed, cfgIn, cfgOut, WizardVars>>

\* a page with the widget is opened
openWidget(u, env) ==
    /\ callers[u].env = Closed
    /\ callers' = [callers EXCEPT ![u].env = env]
    /\ Did("openWidget")
    /\ UNCHANGED <<setupRecords, setupSeq, OutsideSetup>>

\* SetupModal.open up to its permission check
openSetupModal(u) ==
    /\ callers[u].env # Closed /\ callers[u].pc = "idle"
    /\ callers[u].granted = "unknown"
    /\ callers' = [callers EXCEPT
                     ![u].granted =
                        IF checkPermission(callers[u].env) THEN "yes"
                        ELSE "no"]
    /\ Did("openSetupModal")
    /\ UNCHANGED <<setupRecords, setupSeq, OutsideSetup>>

\* saveSetupConfig up to the answer of getSetupConfig
saveSetupConfig(u, config) ==
    LET c == callers[u] IN
    /\ c.env # Closed /\ c.pc = "idle" /\ c.calls < MaxCalls
    /\ callers' = [callers EXCEPT ![u] =
          IF c.env.standalone
          THEN [c EXCEPT !.stored = config, !.outcome = "saved",
                         !.config = config, !.calls = @ + 1]
          ELSE IF ~checkUserHasManageOrgPermission(c.env)
          THEN [c EXCEPT !.outcome = "permission_denied",
                         !.config = config, !.calls = @ + 1]
          ELSE IF ~validConfig(config)
          THEN [c EXCEPT !.outcome = "invalid", !.config = config,
                         !.calls = @ + 1]
          ELSE IF ~checkSetupModuleExists(c.env)
          THEN [c EXCEPT !.outcome = "no_module", !.config = config,
                         !.calls = @ + 1]
          ELSE [c EXCEPT !.pc = "saveWrite", !.config = config,
                         !.existing = existingId(c.env),
                         !.outcome = "none", !.calls = @ + 1]]
    /\ Did("saveSetupConfig")
    /\ UNCHANGED <<setupRecords, setupSeq, OutsideSetup>>

\* the rest of saveSetupConfig: updateRecord on the record it found, or
\* insertRecord when it found none
saveWrite(u) ==
    LET c == callers[u]
        data == setupData(c.config)
        there == \E k \in 1..Len(setupRecords) :
                    setupRecords[k].id = c.existing
    IN
    /\ c.pc = "saveWrite"
    /\ IF c.existing # 0
       THEN /\ setupRecords' =
                 [k \in 1..Len(setupRecords) |->
                     IF setupRecords[k].id = c.existing
                     THEN [id |-> c.existing] @@ data
                     ELSE setupRecords[k]]
            /\ setupSeq' = setupSeq
            /\ callers' = [callers EXCEPT
                  ![u].pc = "idle", ![u].writes = @ + 1,
                  ![u].outcome = IF there THEN "saved" ELSE "failed"]
       ELSE /\ setupRecords' =
                 Append(setupRecords, [id |-> setupSeq + 1] @@ data)
            /\ setupSeq' = setupSeq + 1
            /\ callers' = [callers EXCEPT
                  ![u].pc = "idle", ![u].writes = @ + 1,
                  ![u].outcome = "saved"]
    /\ Did("saveWrite")
    /\ UNCHANGED OutsideSetup

\* deleteSetupConfig up to the answer of getSetupConfig
deleteSetupConfig(u) ==
    LET c == callers[u] IN
    /\ c.env # Closed /\ c.pc = "idle" /\ c.calls < MaxCalls
    /\ callers' = [callers EXCEPT ![u] =
          IF c.env.standalone
          THEN [c EXCEPT !.stored = NoRecord, !.outcome = "deleted",
                         !.calls = @ + 1]
          ELSE IF ~checkUserHasManageOrgPermission(c.env)
          THEN [c EXCEPT !.outcome = "permission_denied", !.calls = @ + 1]
          ELSE IF existingId(c.env) = 0
          THEN [c EXCEPT !.outcome = "nothing", !.calls = @ + 1]
          ELSE [c EXCEPT !.pc = "deleteWrite",
                         !.existing = existingId(c.env),
                         !.outcome = "none", !.calls = @ + 1]]
    /\ Did("deleteSetupConfig")
    /\ UNCHANGED <<setupRecords, setupSeq, OutsideSetup>>

\* the rest of deleteSetupConfig: deleteRecord on the record it found
deleteWrite(u) ==
    LET c == callers[u] IN
    /\ c.pc = "deleteWrite"
    /\ setupRecords' =
          SelectSeq(setupRecords, LAMBDA r : r.id # c.existing)
    /\ callers' = [callers EXCEPT
          ![u].pc = "idle", ![u].writes = @ + 1, ![u].outcome = "deleted"]
    /\ Did("deleteWrite")
    /\ UNCHANGED <<setupSeq, OutsideSetup>>

\* a call of getCredentials by the session
readCredentials(u) ==
    LET c == callers[u] IN
    /\ c.env # Closed /\ c.pc = "idle" /\ c.got = Pending
    /\ callers' = [callers EXCEPT
          ![u].got = getCredentials(c.env.standalone,
                                    IF checkSetupModuleExists(c.env)
                                    THEN firstRecord ELSE NoRecord,
                                    NoRecord, c.stored)]
    /\ Did("readCredentials")
    /\ UNCHANGED <<setupRecords, setupSeq, OutsideSetup>>

----------------------------------------------------------------------------
(* Endpoints: what the environment of the configuration sets, and the URLs  *)
(* the API helper and the wizard request                                    *)

\* README "Environment-Specific OAuth Endpoints"
OAUTH_CONFIG(environment) ==
    IF environment = "production"
    THEN [authorizationEndpoint |->
              [base |-> "https://auth.sidedrawer.com", path |-> "/authorize"],
          tokenEndpoint |->
              [base |-> "https://auth.sidedrawer.com",
               path |-> "/oauth/token"],
          audience |-> "https://user-api.sidedrawer.com"]
    ELSE [authorizationEndpoint |->
              [base |-> "https://auth-sbx.sidedrawersbx.com",
               path |-> "/authorize"],
          tokenEndpoint |->
              [base |-> "https://auth-sbx.sidedrawersbx.com",
               path |-> "/oauth/token"],
          audience |-> "https://user-api-sbx.sidedrawersbx.com"]

\* SideDrawerAPI.constructor
baseURL == "https://user-api-sbx.sidedrawersbx.com"
tenantURL == "https://tenants-gateway-api-sbx.sidedrawersbx.com"

\* OAUTH_CONFIG.audience.includes('sbx')
isSandbox(audience) == includes(audience, "sbx")

\* createTenantWithAngularFlow: the APIs it calls
subscriptionApi(audience) ==
    IF isSandbox(audience) THEN "https://api-sbx.sidedrawersbx.com"
    ELSE "https://api.sidedrawer.com"
tenantApi(audience) ==
    IF isSandbox(audience)
    THEN "https://tenants-gateway-api-sbx.sidedrawersbx.com"
    ELSE "https://tenants-gateway-api.sidedrawer.com"

\* the page's configuration is there and names one of the two environments
Configured ==
    /\ cfgOut \notin {Pending, NoCredentials}
    /\ cfgOut.environment \in {"sandbox", "production"}

OutsideFetch ==
    <<status, pc, urlCode, checkedSession, expiredSeen, sdSession,
      refreshTok, now, loadCalls, failedRefresh, popupSeq, curPopup,
      curState, popupSt, authState, accepted, exchanged, inbox, widgets,
      zohoInitialized, localSession, backendUsed, cfgIn, cfgOut, SetupVars,
      wizard, cardElement, tasks, sent>>

fetch(url, op) ==
    /\ Configured
    /\ fetched' = fetched \cup {url}
    /\ Did(op)
    /\ UNCHANGED OutsideFetch

\* the popup is sent to the authorization endpoint
fetchAuthorize ==
    fetch(OAUTH_CONFIG(cfgOut.environment).authorizationEndpoint,
          "fetchAuthorize")

\* exchangeCodeForToken / refreshAccessToken
fetchToken ==
    fetch(OAUTH_CONFIG(cfgOut.environment).tokenEndpoint, "fetchToken")

\* SideDrawerAPI.request(endpoint)
apiRequest(endpoint) ==
    fetch([base |-> baseURL, path |-> endpoint], "apiRequest")

\* SideDrawerAPI.getTenantInfo
getTenantInfo ==
    fetch([base |-> tenantURL, path |-> "/api/v1/tenants/tenant/shared"],
          "getTenantInfo")

\* the wizard's requests
wizardFetch(which) ==
    LET audience == OAUTH_CONFIG(cfgOut.environment).audience IN
    fetch(CASE which = "customers" ->
                 [base |-> subscriptionApi(audience),
                  path |-> "/api/v1/subscriptions/customers"]
            [] which = "signup" ->
                 [base |-> subscriptionApi(audience),
                  path |-> "/api/v1/tenants/tenant/signup"]
            [] OTHER ->
                 [base |-> tenantApi(audience),
                  path |-> "/api/v1/tenants/tenant/branding/brand-code"],
          "wizardFetch")

----------------------------------------------------------------------------
(* The tenant-creation wizards: TenantCreationWizard (kind "signup", for a  *)
(* new account) and TenantCreationWizardWithCredentials (kind               *)
(* "credentials", for a logged-in user).  Steps are numbered as in          *)
(* this.state.currentStep.  A handler runs up to its first await in one     *)
(* step; what follows the await is the step of the response.                *)

MaxRuns == 2

NoWizard == [none |-> TRUE]

\* what init() finds: the account's customer, its payment methods, and the
\* Stripe key.  The signup wizard reloads a missing key at the payment step.
Accounts(kind) ==
    IF kind = "signup"
    THEN { [customerId |-> "null", selectedPaymentMethod |-> "null",
            hasMethods |-> FALSE, skipPayment |-> FALSE,
            stripePublicKey |-> "pk"] }
    ELSE { [customerId |-> "null", selectedPaymentMethod |-> "null",
            hasMethods |-> FALSE, skipPayment |-> FALSE,
            stripePublicKey |-> k] : k \in {"null", "pk"} }
         \cup
         { [customerId |-> "cus_0", selectedPaymentMethod |-> "pm_saved",
            hasMethods |-> TRUE, skipPayment |-> TRUE,
            stripePublicKey |-> "pk"],
           [customerId |-> "cus_0", selectedPaymentMethod |-> "null",
            hasMethods |-> TRUE, skipPayment |-> FALSE,
            stripePublicKey |-> "pk"] }

\* this.state after the constructor and init(); email stands for email,
\* password and its confirmation, formComplete for the cardholder name and
\* the billing address
NewWizard(kind, account) ==
    [kind |-> kind, currentStep |-> 0,
     email |-> IF kind = "signup" THEN "" ELSE "n/a",
     tenantName |-> "", tenantDomain |-> "", region |-> "",
     selectedPrice |-> "null", totalAdminUsers |-> 0,
     customerId |-> account.customerId,
     selectedPaymentMethod |-> account.selectedPaymentMethod,
     hasMethods |-> account.hasMethods,
     skipPayment |-> account.skipPayment,
     stripePublicKey |-> account.stripePublicKey,
     formComplete |-> FALSE, paymentMethodToken |-> "null",
     loading |-> FALSE, done |-> FALSE]

NoRuns == [runs |-> 0, customers |-> 0, created |-> 0, signups |-> 0]

InitWizard ==
    /\ wizard = NoWizard
    /\ cardElement = "none"
    /\ tasks = {}
    /\ sent = NoRuns
    /\ fetched = {}

\* the wizard, Stripe's card element, the awaited requests and the history,
\* as one value W that the handlers below transform
World == [w |-> wizard, c |-> cardElement, t |-> tasks, s |-> sent]

summaryStep(w) == IF w.skipPayment THEN 2 ELSE 3
paymentShown(w) == w.currentStep = 2 /\ ~w.skipPayment

\* the domain input's listener: toLowerCase().replace(/[^a-z0-9-]/g, '')
sanitize(typed) == IF typed = "Acme!" THEN "acme" ELSE typed
\* /^[a-z0-9-]+$/.test(domain)
validDomain(domain) == domain \in {"acme"}

validateStep1(w) ==
    /\ w.kind = "signup" => w.email # ""
    /\ w.tenantName # ""
    /\ w.tenantDomain # "" /\ validDomain(w.tenantDomain)
    /\ w.region # ""

\* render(), which ends with attachListeners(): at step 2 with a Stripe key
\* it sets the timer that creates the card element
render(W) ==
    IF W.w.currentStep = 2 /\ W.w.stripePublicKey # "null" /\ W.c = "none"
    THEN [W EXCEPT !.c = "timer"]
    ELSE W

\* a run of tenant creation ends in an error
runFails(W) == [W EXCEPT !.w.loading = FALSE]

\* POST .../tenants/tenant/signup
sendSignup(W, run) ==
    [W EXCEPT !.s.signups = @ + 1,
              !.t = @ \cup {[await |-> "signup", run |-> run]}]

\* createTenantWithAngularFlow from "Step 2: Create payment method if needed"
afterCustomer(W, run) ==
    LET w == W.w
        paymentMethodId == Or(w.selectedPaymentMethod, w.paymentMethodToken)
    IN
    IF ~Truthy(paymentMethodId) /\ w.stripePublicKey # "null"
    THEN IF paymentShown(w) /\ w.formComplete
         THEN [W EXCEPT !.c = "ready",
                        !.t = @ \cup {[await |-> "runPaymentMethod",
                                       run |-> run]}]
         ELSE runFails(W)
    ELSE IF ~Truthy(paymentMethodId) THEN runFails(W)
    ELSE IF w.selectedPrice = "null" THEN runFails(W)
    ELSE sendSignup(W, run)

dropCustomerId(W, id) == W
\* this.state.customerId = customerId
keepCustomerId(W, id) == [W EXCEPT !.w.customerId = id]

\* createTenant of the wizard with credentials, which sets loading first
createTenantWithCredentials(W) ==
    LET run == W.s.runs + 1
        W1 == [W EXCEPT !.w.loading = TRUE, !.s.runs = run]
    IN
    IF W.w.customerId = "null"
    THEN [W1 EXCEPT !.s.customers = @ + 1,
                    !.t = @ \cup {[await |-> "customer", run |-> run]}]
    ELSE afterCustomer(W1, run)

\* createTenant of the signup wizard; on the summary step the payment form
\* is not in the page, so without a payment method id it returns
createTenantSignup(W) ==
    LET w == W.w
        paymentMethodId == Or(w.selectedPaymentMethod, w.paymentMethodToken)
        run == W.s.runs + 1
    IN
    IF w.selectedPaymentMethod = "null" /\ w.stripePublicKey = "null"
    THEN W
    ELSE IF ~Truthy(paymentMethodId) THEN W
    ELSE IF w.email = ""
    THEN [W EXCEPT !.w.loading = FALSE, !.s.runs = run]
    ELSE sendSignup([W EXCEPT !.w.loading = TRUE, !.s.runs = run], run)

createTenant(W) ==
    IF W.w.kind = "signup" THEN createTenantSignup(W)
    ELSE createTenantWithCredentials(W)

nextStep(W) ==
    LET w == W.w IN
    IF w.currentStep = 0
    THEN IF ~validateStep1(w) THEN W
         ELSE render([W EXCEPT !.w.currentStep = 1])
    ELSE IF w.currentStep = 1
    THEN IF w.selectedPrice = "null" THEN W
         ELSE IF w.totalAdminUsers < 1 THEN W
         ELSE render([W EXCEPT !.w.currentStep = 2])
    ELSE IF w.currentStep = 2 /\ ~w.skipPayment
    THEN IF w.selectedPaymentMethod = "null" /\ w.stripePublicKey = "null"
         THEN W
         ELSE IF /\ w.selectedPaymentMethod = "null"
                 /\ w.stripePublicKey # "null" /\ W.c = "ready"
         THEN IF ~w.formComplete THEN W
              ELSE [W EXCEPT !.t = @ \cup {[await |-> "stepPaymentMethod",
                                            run |-> 0]}]
         ELSE render([W EXCEPT !.w.currentStep = 3])
    ELSE IF w.currentStep = summaryStep(w) THEN createTenant(W)
    ELSE W

\* one click calls nextStep once, but twice on the signup wizard's summary
\* step, where the button keeps its onclick attribute and gets a listener
handlers(w) == IF w.kind = "signup" /\ w.currentStep = 3 THEN 2 ELSE 1

OutsideWizard ==
    <<status, pc, urlCode, checkedSession, expiredSeen, sdSession,
      refreshTok, now, loadCalls, failedRefresh, popupSeq, curPopup,
      curState, popupSt, authState, accepted, exchanged, inbox, widgets,
      zohoInitialized, localSession, backendUsed, cfgIn, cfgOut, SetupVars,
      fetched>>

\* the step of a handler that leaves the world W
Becomes(W, op) ==
    /\ wizard' = W.w
    /\ cardElement' = W.c
    /\ tasks' = W.t
    /\ sent' = W.s
    /\ Did(op)
    /\ UNCHANGED OutsideWizard

Shown == wizard # NoWizard /\ ~wizard.done

openWizard(kind, account) ==
    /\ wizard = NoWizard
    /\ Becomes([World EXCEPT !.w = NewWizard(kind, account)], "openWizard")

\* a click on the Next / Create Account button; disabled while loading
clickNext ==
    /\ Shown /\ ~wizard.loading
    /\ wizard.currentStep = summaryStep(wizard)
          => sent.runs + handlers(wizard) <= MaxRuns
    /\ Becomes(IF handlers(wizard) = 2 THEN nextStep(nextStep(World))
               ELSE nextStep(World), "clickNext")

\* the Back button
previousStep ==
    /\ Shown /\ wizard.currentStep > 0
    /\ Becomes(render([World EXCEPT !.w.currentStep =
                          IF wizard.skipPayment /\ wizard.currentStep = 2
                          THEN 1 ELSE wizard.currentStep - 1]),
               "previousStep")

\* the inputs of the business-info step
editField(field, typed) ==
    /\ Shown /\ wizard.currentStep = 0
    /\ field = "email" => wizard.kind = "signup"
    /\ Becomes([World EXCEPT !.w[field] =
                   IF field = "tenantDomain" THEN sanitize(typed)
                   ELSE typed],
               "editField")

\* the plans and the number of users of the subscription step
selectPrice ==
    /\ Shown /\ wizard.currentStep = 1
    /\ Becomes(render([World EXCEPT
                   !.w.selectedPrice = "price",
                   !.w.totalAdminUsers = IF @ < 1 THEN 1 ELSE @]),
               "selectPrice")
selectCurrency ==
    /\ Shown /\ wizard.currentStep = 1
    /\ Becomes(render([World EXCEPT !.w.selectedPrice = "null"]),
               "selectCurrency")
editUsers(n) ==
    /\ Shown /\ wizard.currentStep = 1
    /\ Becomes([World EXCEPT !.w.totalAdminUsers = n], "editUsers")

\* the payment step
selectPaymentMethod ==
    /\ Shown /\ paymentShown(wizard) /\ wizard.hasMethods
    /\ Becomes(render([World EXCEPT !.w.selectedPaymentMethod = "pm_saved"]),
               "selectPaymentMethod")
fillPaymentForm ==
    /\ Shown /\ paymentShown(wizard) /\ ~wizard.formComplete
    /\ Becomes([World EXCEPT !.w.formComplete = TRUE], "fillPaymentForm")

\* the timer of attachListeners: initialize and createCardElement, which
\* needs the payment form's container in the page
cardTimer(ok) ==
    /\ wizard # NoWizard /\ cardElement = "timer"
    /\ Becomes([World EXCEPT !.c = IF ok /\ paymentShown(wizard) /\ Shown
                                   THEN "ready" ELSE "none"],
               "cardTimer")

\* nextStep after stripe.createPaymentMethod of the payment step
stepPaymentMethodResponse(ok) ==
    /\ \E task \in tasks : task.await = "stepPaymentMethod"
    /\ LET W == [World EXCEPT !.t = { task \in @ :
                                        task.await # "stepPaymentMethod" }]
       IN Becomes(IF ok
                  THEN render([W EXCEPT !.w.paymentMethodToken = "pm_new",
                                        !.w.currentStep = 3])
                  ELSE W,
                  "stepPaymentMethodResponse")

\* createTenantWithAngularFlow after POST .../subscriptions/customers
customerResponse(task, ok) ==
    /\ task \in tasks /\ task.await = "customer"
    /\ LET W == [World EXCEPT !.t = @ \ {task}] IN
       Becomes(IF ok
               THEN afterCustomer(
                        keepCustomerId([W EXCEPT !.s.created = @ + 1],
                                       "cus_1"),
                        task.run)
               ELSE runFails(W),
               "customerResponse")

\* createTenantWithAngularFlow after stripe.createPaymentMethod
runPaymentMethodResponse(task, ok) ==
    /\ task \in tasks /\ task.await = "runPaymentMethod"
    /\ LET W == [World EXCEPT !.t = @ \ {task}] IN
       Becomes(IF ~ok THEN runFails(W)
               ELSE IF wizard.selectedPrice = "null" THEN runFails(W)
               ELSE sendSignup(W, task.run),
               "runPaymentMethodResponse")

\* the answer to the signup request: the account is there, the request was
\* refused, or the endpoint could not be reached
signupResponse(task, result) ==
    /\ task \in tasks /\ task.await = "signup"
    /\ LET W == [World EXCEPT !.t = @ \ {task}] IN
       Becomes(IF result = "ok"
               THEN [W EXCEPT !.w.done = TRUE,
                              !.w.loading = (wizard.kind = "signup" /\ @)]
               ELSE IF result = "unreachable" /\ wizard.kind = "signup"
               THEN [W EXCEPT !.w.done = TRUE]
               ELSE runFails(W),
               "signupResponse")

----------------------------------------------------------------------------
(* Widget instances that share the host session and the browser's           *)
(* localStorage                                                              *)

Instances == {"A", "B"}

NoTokenData == [none |-> TRUE]

NewWidget ==
    [pc |-> "load", status |-> "Initializing", tokenData |-> NoTokenData,
     savedAt |-> 0]

\* the 2xx answers the token endpoint gives to the refresh of instance i
RefreshResponses(i) ==
    { [access_token |-> "t" \o i, expires_in |-> e] : e \in ExpiresInChoices }
    \cup { [access_token |-> "t" \o i, expires_in |-> e,
             refresh_token |-> "r" \o i] : e \in ExpiresInChoices }

\* refresh is idempotent at the provider: the refresh token used by both
\* instances and the ones issued to them are all honoured
ValidRefreshTokens == {"r1"} \cup {"r" \o i : i \in Instances}

----------------------------------------------------------------------------
(* Initial state: a first page load, over whatever an earlier visit left in  *)
(* the two stores                                                            *)

UrlCodes == {"none", "valid", "stale"}

StoredSessions ==
    { NoSession,
      [accessToken |-> "t1", expiresAt |-> 2 * TickMs, tokenType |-> "Bearer"],
      [accessToken |-> "t1", expiresAt |-> TickMs, tokenType |-> "Bearer"] }

\* a page load on the host platform: init() runs once initZoho has set
\* zohoInitialized
InitWindow ==
    /\ status = "Initializing"
    /\ pc = "init"
    /\ urlCode \in UrlCodes
    /\ checkedSession = FALSE
    /\ expiredSeen = FALSE
    /\ sdSession \in StoredSessions
    /\ refreshTok \in {"r1", "null"}
    /\ now = 0
    /\ loadCalls = 0
    /\ failedRefresh = FALSE
    /\ popupSeq = 0
    /\ curPopup = 0
    /\ curState = 0
    /\ popupSt = [p \in Popups |-> "none"]
    /\ authState = [p \in Popups |-> 0]
    /\ accepted = [p \in 0..MaxPopups |-> 0]
    /\ exchanged = [p \in Popups |-> 0]
    /\ inbox = {}
    /\ widgets = [i \in Instances |-> NewWidget]
    /\ last = [op |-> "construct", msg |-> NoMsg]
    /\ localSession = NoSession
    /\ backendUsed = "none"
    /\ cfgIn = NoSources
    /\ cfgOut = Pending
    /\ InitSetup
    /\ InitWizard

Init == InitWindow /\ zohoInitialized = TRUE

----------------------------------------------------------------------------
(* Page load and bootstrap *)

\* the page is (re)loaded: the window's memory is new, the stores are kept
Load(c) ==
    /\ status' = "Initializing"
    /\ pc' = "init"
    /\ urlCode' = c
    /\ checkedSession' = FALSE
    /\ expiredSeen' = FALSE
    /\ loadCalls' = 0
    /\ curPopup' = 0
    /\ curState' = 0
    /\ Did("load")
    /\ UNCHANGED <<sdSession, refreshTok, now, failedRefresh, popupSeq,
                   popupSt, authState, accepted, exchanged, inbox, widgets,
                   zohoInitialized, localSession, backendUsed, cfgIn, cfgOut,
                   SetupVars, WizardVars>>

\* init(): which leg runs
initNoReturn(code) == "check"
initBranch(code) == IF code # "none" THEN "callback" ELSE "check"

init ==
    /\ pc = "init"
    /\ pc' = initBranch(urlCode)
    /\ Did("init")
    /\ UNCHANGED <<status, urlCode, checkedSession, expiredSeen, sdSession,
                   refreshTok, now, loadCalls, failedRefresh, popupSeq,
                   curPopup, curState, popupSt, authState, accepted,
                   exchanged, inbox, widgets, zohoInitialized, localSession,
                   backendUsed, cfgIn, cfgOut, SetupVars, WizardVars>>

\* checkConnection(): the branch taken for what the stores hold
checkBranchRefreshFirst(session, stored, t) ==
    IF Truthy(getRefreshToken(stored)) THEN "refresh"
    ELSE IF session # NoSession /\ ~isTokenExpired(session.expiresAt, t)
    THEN "connected" ELSE "disconnected"
checkBranch(session, stored, t) ==
    IF session # NoSession /\ ~isTokenExpired(session.expiresAt, t)
    THEN "connected"
    ELSE IF Truthy(getRefreshToken(stored)) THEN "refresh"
    ELSE "disconnected"

checkConnection ==
    /\ pc = "check"
    /\ checkedSession' = TRUE
    /\ expiredSeen' = (sdSession # NoSession
                       /\ isTokenExpired(sdSession.expiresAt, now))
    /\ LET b == checkBranch(sdSession, refreshTok, now) IN
         /\ status' = CASE b = "connected" -> "Connected"
                        [] b = "refresh" -> "Refreshing"
                        [] OTHER -> "Disconnected"
         /\ pc' = IF b = "refresh" THEN "refresh" ELSE "idle"
         /\ loadCalls' = IF b = "refresh" THEN loadCalls + 1 ELSE loadCalls
    /\ Did("checkConnection")
    /\ UNCHANGED <<urlCode, sdSession, refreshTok, now, failedRefresh,
                   popupSeq, curPopup, curState, popupSt, authState, accepted,
                   exchanged, inbox, widgets, zohoInitialized, localSession,
                   backendUsed, cfgIn, cfgOut, SetupVars, WizardVars>>

----------------------------------------------------------------------------
(* Silent refresh and disconnect *)

disconnect ==
    /\ clear
    /\ status' = "Disconnected"

\* what the token endpoint's answer is to the code of refreshAccessToken
ResponseKinds == {"ok", "errorJson", "errorNoJson", "network"}

\* refreshAccessToken after the fetch: the try block runs to its end unless
\* fetch or response.json() throws
refreshAlwaysThrows(kind) == TRUE
refreshThrows(kind) == kind \in {"network", "errorNoJson"}

refreshAccessToken(kind, tokenData) ==
    /\ pc = "refresh"
    /\ pc' = "idle"
    /\ IF refreshThrows(kind)
       THEN disconnect
       ELSE /\ saveTokens(IF kind = "ok" THEN tokenData ELSE ErrorBody)
            /\ status' = "Connected"
    /\ failedRefresh' = (failedRefresh \/ kind # "ok")
    /\ Did(IF kind = "ok" THEN "refreshOk" ELSE "refreshFailed")
    /\ UNCHANGED <<urlCode, checkedSession, expiredSeen, now, loadCalls,
                   popupSeq, curPopup, curState, popupSt, authState, accepted,
                   exchanged, inbox, widgets, zohoInitialized, localSession,
                   backendUsed, cfgIn, cfgOut, SetupVars, WizardVars>>

\* the user presses Disconnect
Disconnect ==
    /\ pc # "init"
    /\ disconnect
    /\ Did("disconnect")
    /\ UNCHANGED <<pc, urlCode, checkedSession, expiredSeen, now, loadCalls,
                   failedRefresh, popupSeq, curPopup, curState, popupSt,
                   authState, accepted, exchanged, inbox, widgets,
                   zohoInitialized, localSession, backendUsed, cfgIn, cfgOut,
                   SetupVars, WizardVars>>

Tick ==
    /\ now < MaxTicks * TickMs
    /\ now' = now + TickMs
    /\ Did("tick")
    /\ UNCHANGED <<status, pc, urlCode, checkedSession, expiredSeen,
                   sdSession, refreshTok, loadCalls, failedRefresh, popupSeq,
                   curPopup, curState, popupSt, authState, accepted,
                   exchanged, inbox, widgets, zohoInitialized, localSession,
                   backendUsed, cfgIn, cfgOut, SetupVars, WizardVars>>

----------------------------------------------------------------------------
(* The callback leg: a window whose URL carries an authorization code       *)

\* handleOAuthCallback(code): the state is validated, then the code is
\* exchanged
handleOAuthCallback ==
    /\ pc = "callback"
    /\ IF urlCode = "valid"
       THEN /\ pc' = "exchange"
            /\ loadCalls' = loadCalls + 1
            /\ status' = "Connecting"
            /\ failedRefresh' = FALSE
       ELSE /\ pc' = "idle"
            /\ status' = "Disconnected"
            /\ UNCHANGED <<loadCalls, failedRefresh>>
    /\ Did("handleOAuthCallback")
    /\ UNCHANGED <<urlCode, checkedSession, expiredSeen, sdSession,
                   refreshTok, now, popupSeq, curPopup, curState, popupSt,
                   authState, accepted, exchanged, inbox, widgets,
                   zohoInitialized, localSession, backendUsed, cfgIn, cfgOut,
                   SetupVars, WizardVars>>

\* the token endpoint answers the code exchange
exchangeResponse(ok, tokenData) ==
    /\ pc = "exchange"
    /\ pc' = "idle"
    /\ IF ok
       THEN /\ saveTokens(tokenData)
            /\ status' = "Connected"
       ELSE /\ status' = "Disconnected"
            /\ UNCHANGED <<sdSession, refreshTok>>
    /\ Did(IF ok THEN "exchangeOk" ELSE "exchangeFailed")
    /\ UNCHANGED <<urlCode, checkedSession, expiredSeen, now, loadCalls,
                   failedRefresh, popupSeq, curPopup, curState, popupSt,
                   authState, accepted, exchanged, inbox, widgets,
                   zohoInitialized, localSession, backendUsed, cfgIn, cfgOut,
                   SetupVars, WizardVars>>

----------------------------------------------------------------------------
(* Popup transport *)

\* the state value of the n-th authorization attempt
reuseState(n) == 1
newState(n) == n

\* the user presses Connect: a popup is opened for a new attempt
connect ==
    /\ pc = "idle"
    /\ status \in {"Disconnected", "Connecting"}
    /\ popupSeq < MaxPopups
    /\ popupSeq' = popupSeq + 1
    /\ curPopup' = popupSeq + 1
    /\ curState' = newState(popupSeq + 1)
    /\ popupSt' = [popupSt EXCEPT ![popupSeq + 1] = "auth"]
    /\ authState' = [authState EXCEPT ![popupSeq + 1] = newState(popupSeq + 1)]
    /\ status' = "Connecting"
    /\ failedRefresh' = FALSE
    /\ Did("connect")
    /\ UNCHANGED <<pc, urlCode, checkedSession, expiredSeen, sdSession,
                   refreshTok, now, loadCalls, accepted, exchanged, inbox,
                   widgets, zohoInitialized, localSession, backendUsed, cfgIn,
                   cfgOut, SetupVars, WizardVars>>

\* where the popup stands once its code exchange has been answered: it closes
\* itself, success or failure
popupRetries(ok) == IF ok THEN "closed" ELSE "auth"
popupAfterExchange(ok) == "closed"

\* the popup gets the provider's redirect: it validates the state, exchanges
\* the code, saves in its own context, posts the result and closes itself.
\* Its write to localStorage is seen by the opener; its write of the session
\* record may or may not reach the opener's host session.
popupCallback(p, ok, tokenData, propagates) ==
    /\ popupSt[p] = "auth"
    /\ popupSt' = [popupSt EXCEPT ![p] = IF authState[p] = curState
                                         THEN popupAfterExchange(ok)
                                         ELSE "closed"]
    /\ exchanged' = [exchanged EXCEPT ![p] = IF authState[p] = curState
                                             THEN @ + 1 ELSE @]
    /\ LET m == IF authState[p] = curState /\ ok
                THEN Message(p, PopupOrigin, "oauth_success", authState[p],
                             tokenData)
                ELSE Message(p, PopupOrigin, "oauth_error", authState[p],
                             ErrorBody)
       IN /\ inbox' = inbox \cup {m}
          /\ last' = [op |-> "popupCallback", msg |-> m]
          /\ IF m.type = "oauth_success"
             THEN /\ refreshTok' = RefreshAfterSave(tokenData, refreshTok)
                  /\ sdSession' = IF propagates
                                  THEN SessionData(tokenData, now)
                                  ELSE sdSession
             ELSE UNCHANGED <<sdSession, refreshTok>>
    /\ UNCHANGED <<status, pc, urlCode, checkedSession, expiredSeen, now,
                   loadCalls, failedRefresh, popupSeq, curPopup, curState,
                   authState, accepted, widgets, zohoInitialized,
                   localSession, backendUsed, cfgIn, cfgOut, SetupVars,
                   WizardVars>>

\* the user closes the popup before it has posted anything
popupAbandon(p) ==
    /\ popupSt[p] = "auth"
    /\ popupSt' = [popupSt EXCEPT ![p] = "abandoned"]
    /\ Did("popupAbandon")
    /\ UNCHANGED <<status, pc, urlCode, checkedSession, expiredSeen,
                   sdSession, refreshTok, now, loadCalls, failedRefresh,
                   popupSeq, curPopup, curState, authState, accepted,
                   exchanged, inbox, widgets, zohoInitialized, localSession,
                   backendUsed, cfgIn, cfgOut, SetupVars, WizardVars>>

\* the messages that can reach the opener besides the one post of each
\* popup: a further message of a popup that has closed and is not, or no
\* longer, the current one, a message of the current popup's window sent
\* from another origin, and a message of a
\* same-origin window the opener never opened (src = 0)
StrayMessages ==
    { Message(p, PopupOrigin, type, authState[p], StrayTokens) :
        p \in {q \in Popups : /\ popupSt[q] \in {"closed", "abandoned"}
                               /\ q # curPopup},
        type \in {"oauth_success", "oauth_error"} }
    \cup { Message(curPopup, "https://evil", "oauth_success", curState, StrayTokens),
           Message(0, PopupOrigin, "oauth_success", curState, StrayTokens) }

\* the opener's message listener: which messages it processes
acceptsByShape(m, popup, st) == m.type \in {"oauth_success", "oauth_error"}
acceptsAnyOrigin(m, popup, st) ==
    /\ m.type \in {"oauth_success", "oauth_error"}
    /\ popup # 0
    /\ m.src = popup
    /\ m.state = st
accepts(m, popup, st) ==
    /\ m.type \in {"oauth_success", "oauth_error"}
    /\ m.origin = PopupOrigin
    /\ popup # 0
    /\ m.src = popup
    /\ m.state = st

openerReceivesMessage(m) ==
    /\ inbox' = inbox \ {m}
    /\ last' = [op |-> "receive", msg |-> m]
    /\ IF accepts(m, curPopup, curState)
       THEN /\ accepted' = [accepted EXCEPT ![m.src] = @ + 1]
            /\ curPopup' = 0
            /\ curState' = 0
            /\ IF m.type = "oauth_success"
               THEN /\ saveTokens(m.tokens)
                    /\ status' = "Connected"
               ELSE /\ status' = "Disconnected"
                    /\ UNCHANGED <<sdSession, refreshTok>>
       ELSE UNCHANGED <<accepted, curPopup, curState, sdSession, refreshTok,
                        status>>
    /\ UNCHANGED <<pc, urlCode, checkedSession, expiredSeen, now, loadCalls,
                   failedRefresh, popupSeq, popupSt, authState, exchanged,
                   widgets, zohoInitialized, localSession, backendUsed, cfgIn,
                   cfgOut, SetupVars, WizardVars>>

\* the opener's poll of popup.closed
pollDoesNothing ==
    /\ pc = "idle" /\ status = "Connecting" /\ curPopup # 0
    /\ popupSt[curPopup] \in {"closed", "abandoned"}
    /\ UNCHANGED <<status, curPopup, curState, cfgIn, cfgOut, SetupVars,
                   WizardVars>>
pollPopupClosed ==
    /\ pc = "idle" /\ status = "Connecting" /\ curPopup # 0
    /\ popupSt[curPopup] \in {"closed", "abandoned"}
    /\ status' = "Disconnected"
    /\ curPopup' = 0
    /\ curState' = 0

PollPopupClosed ==
    /\ pollPopupClosed
    /\ Did("pollPopupClosed")
    /\ UNCHANGED <<pc, urlCode, checkedSession, expiredSeen, sdSession,
                   refreshTok, now, loadCalls, failedRefresh, popupSeq,
                   popupSt, authState, accepted, exchanged, inbox, widgets,
                   zohoInitialized, localSession, backendUsed, cfgIn, cfgOut,
                   SetupVars, WizardVars>>

----------------------------------------------------------------------------
(* Provider API requests *)

\* an authenticated request: the bearer token is whatever getAccessToken
\* returns, when it returns one
request ==
    /\ pc = "idle"
    /\ Truthy(getAccessToken(sdSession))
    /\ Did(IF isTokenExpired(sdSession.expiresAt, now)
           THEN "requestWithExpiredToken" ELSE "request")
    /\ UNCHANGED <<status, pc, urlCode, checkedSession, expiredSeen,
                   sdSession, refreshTok, now, loadCalls, failedRefresh,
                   popupSeq, curPopup, curState, popupSt, authState, accepted,
                   exchanged, inbox, widgets, zohoInitialized, localSession,
                   backendUsed, cfgIn, cfgOut, SetupVars, WizardVars>>

\* what the signup backend answers with tokens
SignupResults ==
    { [accessToken |-> "t3", idToken |-> "i3", expiresIn |-> e,
       refreshToken |-> r] : e \in ExpiresInChoices, r \in {"r3", ""} }

\* TenantCreationWizard.signupAndCreateTenant, once the backend has answered
\* with tokens: it stores them itself.  expiresAt is stored as a string of
\* digits, which the subtraction in isTokenExpired reads as the number again.
signupAndCreateTenant(result) ==
    /\ pc = "idle"
    /\ Truthy(result.accessToken) /\ Truthy(result.idToken)
    /\ sdSession' = [accessToken |-> result.accessToken,
                     idToken |-> result.idToken,
                     expiresAt |-> now + (result.expiresIn * 1000),
                     refreshToken |-> result.refreshToken]
    /\ Did("signupAndCreateTenant")
    /\ UNCHANGED <<status, pc, urlCode, checkedSession, expiredSeen,
                   refreshTok, now, loadCalls, failedRefresh, popupSeq,
                   curPopup, curState, popupSt, authState, accepted,
                   exchanged, inbox, widgets, zohoInitialized, localSession,
                   backendUsed, cfgIn, cfgOut, SetupVars, WizardVars>>

----------------------------------------------------------------------------
(* Two widget instances on one host session: each runs checkConnection and  *)
(* refreshAccessToken on its own; every await is a point where the other    *)
(* instance can run                                                         *)

OneWindow ==
    <<status, pc, urlCode, checkedSession, expiredSeen, loadCalls,
      failedRefresh, popupSeq, curPopup, curState, popupSt, authState,
      accepted, exchanged, inbox>>

\* checkConnection of instance i
widgetCheck(i) ==
    /\ widgets[i].pc = "load"
    /\ LET b == checkBranch(sdSession, refreshTok, now) IN
         widgets' = [widgets EXCEPT
            ![i].pc = IF b = "refresh" THEN "fetch" ELSE "done",
            ![i].status = CASE b = "connected" -> "Connected"
                            [] b = "refresh" -> "Refreshing"
                            [] OTHER -> "Disconnected"]
    /\ Did("widgetCheck")
    /\ UNCHANGED <<OneWindow, sdSession, refreshTok, now, zohoInitialized,
                   localSession, backendUsed, cfgIn, cfgOut, SetupVars,
                   WizardVars>>

\* refreshAccessToken of instance i: the token endpoint's 2xx answer arrives
widgetRefreshResponse(i, tokenData) ==
    /\ widgets[i].pc = "fetch"
    /\ widgets' = [widgets EXCEPT ![i].pc = "setSession",
                                  ![i].tokenData = tokenData]
    /\ Did("widgetRefreshResponse")
    /\ UNCHANGED <<OneWindow, sdSession, refreshTok, now, zohoInitialized,
                   localSession, backendUsed, cfgIn, cfgOut, SetupVars,
                   WizardVars>>

\* saveTokens of instance i, first write: the session record
widgetSetSession(i) ==
    /\ widgets[i].pc = "setSession"
    /\ sdSession' = SessionData(widgets[i].tokenData, now)
    /\ widgets' = [widgets EXCEPT ![i].pc = "setRefresh", ![i].savedAt = now]
    /\ Did("widgetSetSession")
    /\ UNCHANGED <<OneWindow, refreshTok, now, zohoInitialized, localSession,
                   backendUsed, cfgIn, cfgOut, SetupVars, WizardVars>>

\* saveTokens of instance i, second write: the refresh token; then
\* showConnectedStatus
widgetSetRefresh(i) ==
    /\ widgets[i].pc = "setRefresh"
    /\ refreshTok' = RefreshAfterSave(widgets[i].tokenData, refreshTok)
    /\ widgets' = [widgets EXCEPT ![i].pc = "done", ![i].status = "Connected"]
    /\ Did("widgetSetRefresh")
    /\ UNCHANGED <<OneWindow, sdSession, now, zohoInitialized, localSession,
                   backendUsed, cfgIn, cfgOut, SetupVars, WizardVars>>

----------------------------------------------------------------------------
(* The session record when the host SDK is not there: the record is kept in *)
(* localStorage, under a key of its own                                     *)

\* which store takes the session record
backendAlwaysHost(initialized) == "host"
sessionBackend(initialized) == IF initialized THEN "host" ELSE "local"

getZohoSession ==
    IF sessionBackend(zohoInitialized) = "host" THEN sdSession
    ELSE localSession

\* saveTokens, with setZohoSession choosing the store
storeSaveTokens(tokenData) ==
    /\ LET b == sessionBackend(zohoInitialized) IN
         /\ IF b = "host"
            THEN /\ sdSession' = SessionData(tokenData, now)
                 /\ UNCHANGED localSession
            ELSE /\ localSession' = SessionData(tokenData, now)
                 /\ UNCHANGED sdSession
         /\ backendUsed' = b
    /\ refreshTok' = RefreshAfterSave(tokenData, refreshTok)
    /\ last' = [op |-> "storeSave",
                msg |-> [type |-> "saved", tokens |-> tokenData]]
    /\ UNCHANGED <<OneWindow, widgets, now, zohoInitialized, cfgIn, cfgOut,
                   SetupVars, WizardVars>>

\* getAccessToken, with getZohoSession reading the store in use
storeRead ==
    /\ last' = [op |-> "storeRead",
                msg |-> [type |-> "read",
                         token |-> getAccessToken(getZohoSession)]]
    /\ UNCHANGED <<OneWindow, widgets, sdSession, refreshTok, now,
                   zohoInitialized, localSession, backendUsed, cfgIn, cfgOut,
                   SetupVars, WizardVars>>

\* ZOHO.embeddedApp.init() resolves
storeInitZoho ==
    /\ ~zohoInitialized
    /\ zohoInitialized' = TRUE
    /\ Did("initZoho")
    /\ UNCHANGED <<OneWindow, widgets, sdSession, refreshTok, now,
                   localSession, backendUsed, cfgIn, cfgOut, SetupVars,
                   WizardVars>>

----------------------------------------------------------------------------
(* isTokenExpired around the moment a stored token enters its buffer        *)

\* the lifetime, in seconds, of the token the stored session holds
Lifetimes == {300, 301, 600}

\* the instants looked at: MaxSkewMs to either side of expiresAt - buffer
NearBoundary(expiresAt) ==
    (expiresAt - bufferTime - MaxSkewMs) .. (expiresAt - bufferTime + MaxSkewMs)

expiryClock(d) ==
    /\ now + d \in NearBoundary(sdSession.expiresAt)
    /\ now' = now + d
    /\ Did("clock")
    /\ UNCHANGED <<OneWindow, widgets, sdSession, refreshTok, zohoInitialized,
                   localSession, backendUsed, cfgIn, cfgOut, SetupVars,
                   WizardVars>>

evalIsTokenExpired ==
    /\ last' = [op |-> "isTokenExpired",
                msg |-> [type |-> "result",
                         result |-> isTokenExpired(sdSession.expiresAt, now)]]
    /\ UNCHANGED <<OneWindow, widgets, sdSession, refreshTok, now,
                   zohoInitialized, localSession, backendUsed, cfgIn, cfgOut,
                   SetupVars, WizardVars>>

----------------------------------------------------------------------------

\* one window's session lifecycle: page loads, bootstrap, silent refresh, the
\* redirect callback leg, disconnect, provider requests, the passing of time
Next ==
    \/ \E c \in UrlCodes : Load(c)
    \/ init
    \/ checkConnection
    \/ \E kind \in ResponseKinds, tokenData \in TokenResponses :
           refreshAccessToken(kind, tokenData)
    \/ handleOAuthCallback
    \/ \E ok \in BOOLEAN, tokenData \in TokenResponses :
           exchangeResponse(ok, tokenData)
    \/ Disconnect
    \/ Tick
    \/ request
    \/ \E result \in SignupResults : signupAndCreateTenant(result)

Spec == Init /\ [][Next]_vars

\* the popup transport, on a page loaded without a code in its URL
PopupInit == Init /\ urlCode = "none"

PopupNext ==
    \/ Load("none")
    \/ init
    \/ checkConnection
    \/ \E kind \in ResponseKinds, tokenData \in TokenResponses :
           refreshAccessToken(kind, tokenData)
    \/ Disconnect
    \/ connect
    \/ \E p \in Popups, ok \in BOOLEAN, tokenData \in TokenResponses,
          propagates \in BOOLEAN : popupCallback(p, ok, tokenData, propagates)
    \/ \E p \in Popups : popupAbandon(p)
    \/ \E m \in inbox \cup StrayMessages : openerReceivesMessage(m)
    \/ PollPopupClosed

PopupSpec == PopupInit /\ [][PopupNext]_vars

\* the poll of popup.closed is a timer: it keeps running
PopupFairSpec == PopupSpec /\ WF_vars(PollPopupClosed)

\* two widget instances loaded on the same host session
RaceNext ==
    \/ \E i \in Instances : widgetCheck(i)
    \/ \E i \in Instances : \E tokenData \in RefreshResponses(i) :
           widgetRefreshResponse(i, tokenData)
    \/ \E i \in Instances : widgetSetSession(i)
    \/ \E i \in Instances : widgetSetRefresh(i)
    \/ Tick

RaceSpec == Init /\ [][RaceNext]_vars

\* the token store, with or without the host SDK
StoreInit == InitWindow /\ zohoInitialized \in BOOLEAN

StoreNext ==
    \/ \E tokenData \in TokenResponses : storeSaveTokens(tokenData)
    \/ storeRead
    \/ storeInitZoho
    \/ Tick

StoreSpec == StoreInit /\ [][StoreNext]_vars

\* a session saved at instant 0 with one of the lifetimes, looked at near
\* the instant it enters the buffer
ExpiryInit ==
    /\ status = "Initializing"
    /\ pc = "init"
    /\ urlCode = "none"
    /\ checkedSession = FALSE
    /\ expiredSeen = FALSE
    /\ \E e \in Lifetimes :
          sdSession = SessionData([access_token |-> "t1", expires_in |-> e], 0)
    /\ refreshTok = "null"
    /\ now = sdSession.expiresAt - bufferTime - MaxSkewMs
    /\ loadCalls = 0
    /\ failedRefresh = FALSE
    /\ popupSeq = 0
    /\ curPopup = 0
    /\ curState = 0
    /\ popupSt = [p \in Popups |-> "none"]
    /\ authState = [p \in Popups |-> 0]
    /\ accepted = [p \in 0..MaxPopups |-> 0]
    /\ exchanged = [p \in Popups |-> 0]
    /\ inbox = {}
    /\ widgets = [i \in Instances |-> NewWidget]
    /\ zohoInitialized = TRUE
    /\ localSession = NoSession
    /\ backendUsed = "none"
    /\ cfgIn = NoSources
    /\ cfgOut = Pending
    /\ InitSetup
    /\ InitWizard
    /\ last = [op |-> "construct", msg |-> NoMsg]

ExpiryNext ==
    \/ \E d \in {1, 1000} : expiryClock(d)
    \/ evalIsTokenExpired

ExpirySpec == ExpiryInit /\ [][ExpiryNext]_vars

\* credential resolution over what the sources can hold
ConfigNext ==
    \/ \E in \in Sources : loadSources(in)
    \/ resolveCredentials

ConfigInit == Init /\ urlCode = "none"

ConfigSpec == ConfigInit /\ [][ConfigNext]_vars

\* one widget session, anywhere, using the Setup API
PermissionNext ==
    \/ \E env \in Environments : openWidget("a", env)
    \/ openSetupModal("a")
    \/ \E config \in SaveConfigs : saveSetupConfig("a", config)
    \/ saveWrite("a")
    \/ deleteSetupConfig("a")
    \/ deleteWrite("a")
    \/ readCredentials("a")

SetupInit == Init /\ urlCode = "none" /\ sdSession = NoSession
                  /\ refreshTok = "null"

PermissionSpec == SetupInit /\ [][PermissionNext]_vars

\* two sessions of users the host lets in, against one setup module
SetupNext ==
    \/ \E u \in Callers : \E env \in HostEnvironments : openWidget(u, env)
    \/ \E u \in Callers : \E config \in SaveConfigs :
          saveSetupConfig(u, config)
    \/ \E u \in Callers : saveWrite(u)
    \/ \E u \in Callers : deleteSetupConfig(u)
    \/ \E u \in Callers : deleteWrite(u)

SetupSpec == SetupInit /\ [][SetupNext]_vars

\* one page load with its configuration resolved, and the requests it makes
EndpointSources ==
    { in \in Sources :
        /\ ~in.standalone /\ in.record # NoRecord
        /\ in.record.Client_Id__c = "A" /\ in.record.Redirect_Uri__c = "uA"
        /\ in.widgetConfig = NoRecord /\ in.urlParams = NoRecord
        /\ in.stored = NoRecord }

EndpointNext ==
    \/ \E in \in EndpointSources : loadSources(in)
    \/ resolveCredentials
    \/ fetchAuthorize
    \/ fetchToken
    \/ \E endpoint \in {"/me", "/documents"} : apiRequest(endpoint)
    \/ getTenantInfo
    \/ \E which \in {"customers", "signup", "brand"} : wizardFetch(which)

EndpointSpec == SetupInit /\ [][EndpointNext]_vars

\* one wizard session, of either wizard
WizardNext ==
    \/ \E kind \in {"signup", "credentials"} :
          \E account \in Accounts(kind) : openWizard(kind, account)
    \/ clickNext
    \/ previousStep
    \/ \E v \in {"", "Acme"} : editField("tenantName", v)
    \/ \E v \in {"", "acme", "Acme!"} : editField("tenantDomain", v)
    \/ \E v \in {"", "CA"} : editField("region", v)
    \/ \E v \in {"", "a@b.co"} : editField("email", v)
    \/ selectPrice
    \/ selectCurrency
    \/ \E n \in {0, 1} : editUsers(n)
    \/ selectPaymentMethod
    \/ fillPaymentForm
    \/ \E ok \in BOOLEAN : cardTimer(ok)
    \/ \E ok \in BOOLEAN : stepPaymentMethodResponse(ok)
    \/ \E task \in tasks : \E ok \in BOOLEAN : customerResponse(task, ok)
    \/ \E task \in tasks : \E ok \in BOOLEAN :
          runPaymentMethodResponse(task, ok)
    \/ \E task \in tasks : \E result \in {"ok", "failed", "unreachable"} :
          signupResponse(task, result)

WizardSpec == SetupInit /\ [][WizardNext]_vars

----------------------------------------------------------------------------
(* What the stores hold, said without the code's own helpers *)

HasValidAccessToken ==
    /\ Truthy(sdSession.accessToken)
    /\ now < sdSession.expiresAt - bufferTime

StoresUnchanged == UNCHANGED <<status, sdSession, refreshTok>>

----------------------------------------------------------------------------
(* C1: whenever a refresh attempt fails (revoked token, non-2xx response,    *)
(* network failure) both stores are cleared and the status is Disconnected,  *)
(* and no refresh call is made again until the user re-authenticates.        *)
C1_RefreshFailureEndsSession ==
    [][ /\ last'.op = "refreshFailed" =>
              /\ sdSession' = NoSession
              /\ refreshTok' = "null"
              /\ status' = "Disconnected"
        /\ failedRefresh => ~(pc = "check" /\ pc' = "refresh") ]_vars

(* C2: on a load without a code, checkConnection ends in the outcome the     *)
(* stores determine: a valid access token gives Connected without a token    *)
(* call; otherwise a refresh token gives Refreshing and exactly one refresh  *)
(* call; otherwise Disconnected without a call.                              *)
C2_CheckOutcome ==
    [][ last'.op = "checkConnection" =>
          /\ urlCode = "none"
          /\ IF HasValidAccessToken
             THEN status' = "Connected" /\ pc' = "idle" /\ loadCalls' = 0
             ELSE IF refreshTok # "null"
             THEN status' = "Refreshing" /\ pc' = "refresh" /\ loadCalls' = 1
             ELSE status' = "Disconnected" /\ pc' = "idle" /\ loadCalls' = 0 ]_vars

C2_Witness ==
    /\ last.op = "checkConnection"
    /\ status = "Refreshing"
    /\ loadCalls = 1
    /\ sdSession # NoSession

(* C3: a load whose URL carries a code runs the callback leg and never       *)
(* evaluates checkConnection, whatever is cached; checkConnection is         *)
(* evaluated only once the URL check has found no code.                      *)
C3_BootstrapOrder ==
    /\ urlCode # "none" => ~checkedSession
    /\ urlCode # "none" => pc \in {"init", "callback", "exchange", "idle"}
    /\ checkedSession => pc # "init"
    /\ pc = "check" => urlCode = "none"

C3_Witness ==
    /\ urlCode = "valid"
    /\ pc = "exchange"
    /\ HasValidAccessToken
    /\ refreshTok # "null"

(* C4: no authenticated provider request carries an access token that is     *)
(* absent or past expiresAt - skew buffer (getAccessToken gives null then).  *)
C4_NoExpiredBearer ==
    last.op \in {"request", "requestWithExpiredToken"} => HasValidAccessToken

(* C5: of each popup at most one oauth_success / oauth_error message is      *)
(* processed; a later one, or one of a popup that is not the current one,    *)
(* leaves the status and both stores unchanged.                              *)
C5_OneMessagePerPopup ==
    [][ /\ \A p \in 0..MaxPopups : accepted'[p] <= 1
        /\ accepted'[0] = 0
        /\ ( /\ last'.op = "receive"
             /\ \/ last'.msg.src # curPopup
                \/ accepted[last'.msg.src] >= 1 )
           => StoresUnchanged ]_vars

C5_Witness ==
    /\ last.op = "receive"
    /\ last.msg.tokens = StrayTokens
    /\ last.msg.src \in Popups
    /\ accepted[last.msg.src] = 1
    /\ status = "Connected"
    /\ sdSession.accessToken = "t2"

(* C6: a message whose origin is not the popup's origin is ignored, even a   *)
(* well-formed oauth_success from the current popup's window: the status     *)
(* and both stores stay as they were.                                        *)
C6_ForeignOriginIgnored ==
    [][ (last'.op = "receive" /\ last'.msg.origin # PopupOrigin)
           => /\ StoresUnchanged
              /\ UNCHANGED <<curPopup, curState, accepted>> ]_vars

C6_Witness ==
    /\ last.op = "receive"
    /\ last.msg.origin # PopupOrigin
    /\ last.msg.type = "oauth_success"
    /\ curPopup # 0
    /\ last.msg.src = curPopup
    /\ last.msg.state = curState
    /\ status = "Connecting"

(* C7: two attempts carry distinct state values, and once the controller is  *)
(* on a later attempt a callback or message with an earlier attempt's state  *)
(* is rejected: no exchange result is saved and the status does not change.  *)
C7_StateIsolation ==
    [][ /\ \A p, q \in Popups :
              (p # q /\ popupSt'[p] # "none" /\ popupSt'[q] # "none")
                 => authState'[p] # authState'[q]
        /\ ( /\ last'.op \in {"popupCallback", "receive"}
             /\ last'.msg.state # curState )
           => /\ StoresUnchanged
              /\ last'.op = "popupCallback" => last'.msg.type = "oauth_error" ]_vars

C7_Witness ==
    /\ popupSeq = 2
    /\ curPopup = 2
    /\ last.op = "popupCallback"
    /\ last.msg.src = 1
    /\ last.msg.type = "oauth_error"
    /\ status = "Connecting"

(* C8: when the current popup was closed before posting a result, the        *)
(* opener does not stay Connecting on it: the poll finds it closed and the   *)
(* status becomes Disconnected.                                              *)
WaitingOnAbandonedPopup ==
    /\ status = "Connecting"
    /\ curPopup # 0
    /\ popupSt[curPopup] = "abandoned"

C8_AbandonedPopupDetected ==
    /\ [][last'.op = "pollPopupClosed" =>
             (status = "Connecting" /\ status' = "Disconnected")]_vars
    /\ WaitingOnAbandonedPopup ~> ~WaitingOnAbandonedPopup

C8_Witness ==
    /\ last.op = "pollPopupClosed"
    /\ status = "Disconnected"
    /\ popupSeq = 1
    /\ popupSt[1] = "abandoned"

(* C9: on an accepted oauth_success the opener saves the payload's token set *)
(* and becomes Connected, so getAccessToken returns the payload's access     *)
(* token; on an accepted oauth_error it becomes Disconnected, saving nothing.*)
C9_OpenerPersistsPayload ==
    [][ (last'.op = "receive" /\ accepted' # accepted) =>
          IF last'.msg.type = "oauth_success"
          THEN /\ status' = "Connected"
               /\ getAccessToken(sdSession') = last'.msg.tokens.access_token
               /\ sdSession'.expiresAt = now + last'.msg.tokens.expires_in * 1000
               /\ "refresh_token" \in DOMAIN last'.msg.tokens
                     => refreshTok' = last'.msg.tokens.refresh_token
          ELSE /\ status' = "Disconnected"
               /\ UNCHANGED <<sdSession, refreshTok>> ]_vars

C9_Witness ==
    /\ last.op = "receive"
    /\ last.msg.type = "oauth_success"
    /\ last.msg.src \in Popups
    /\ accepted[last.msg.src] = 1
    /\ status = "Connected"
    /\ getAccessToken(sdSession) = "t2"

(* C10: after an explicit disconnect, from any state, getAccessToken and     *)
(* getRefreshToken both give null, the status is Disconnected, and the       *)
(* disconnect made no token-endpoint call.                                   *)
C10_DisconnectClears ==
    [][ last'.op = "disconnect" =>
          /\ getAccessToken(sdSession') = "null"
          /\ getRefreshToken(refreshTok') = "null"
          /\ status' = "Disconnected"
          /\ loadCalls' = loadCalls
          /\ pc' = pc ]_vars

C10_Witness ==
    /\ last.op = "disconnect"
    /\ accepted[1] = 1
    /\ status = "Disconnected"
    /\ sdSession = NoSession
    /\ refreshTok = "null"

(* C11: with a stored refresh token and an expired access token,            *)
(* checkConnection makes exactly one refresh call; after it succeeds the    *)
(* new access token is valid and serves the following request, and no       *)
(* further token-endpoint call is made.                                     *)
C11_RefreshThenUse ==
    [][ /\ (last'.op = "checkConnection" /\ expiredSeen' /\ refreshTok # "null")
              => (pc' = "refresh" /\ status' = "Refreshing" /\ loadCalls' = 1)
        /\ (last'.op = "refreshOk" /\ expiredSeen)
              => /\ status' = "Connected"
                 /\ loadCalls' = 1
                 /\ sdSession'.accessToken \in AccessTokens
                 /\ now < sdSession'.expiresAt - bufferTime
        /\ (last.op = "refreshOk" /\ expiredSeen
              /\ last'.op \in {"request", "requestWithExpiredToken"})
              => /\ last'.op = "request"
                 /\ getAccessToken(sdSession) \in AccessTokens
                 /\ loadCalls' = 1 ]_vars

C11_Witness ==
    /\ last.op = "request"
    /\ expiredSeen
    /\ loadCalls = 1
    /\ status = "Connected"
    /\ getAccessToken(sdSession) = "t2"
    /\ HasValidAccessToken

(* C12: each authorization code is submitted to the token endpoint at most  *)
(* once, and by its popup only: the opener, on a message, makes no token    *)
(* call and opens no new attempt, and a popup whose exchange failed has     *)
(* closed and does not submit its code again.                               *)
C12_CodeExchangedOnce ==
    [][ /\ \A p \in Popups : exchanged'[p] <= 1
        /\ last'.op = "receive"
              => UNCHANGED <<exchanged, loadCalls, popupSeq, popupSt, pc>>
        /\ (last'.op = "popupCallback" /\ last'.msg.type = "oauth_error")
              => popupSt'[last'.msg.src] = "closed"
        /\ \A p \in Popups : exchanged'[p] # exchanged[p]
              => last'.op = "popupCallback" /\ last'.msg.src = p ]_vars

C12_Witness ==
    /\ last.op = "receive"
    /\ last.msg.type = "oauth_error"
    /\ last.msg.src \in Popups
    /\ last.msg.state = last.msg.src
    /\ accepted[last.msg.src] = 1
    /\ exchanged[last.msg.src] = 1
    /\ status = "Disconnected"
    /\ loadCalls = 0

(* C13: a non-2xx answer of the token endpoint, to a refresh or to a code   *)
(* exchange, makes the exchange fail: nothing of that answer is saved as a  *)
(* token set and the status does not become Connected by it.                *)
C13_Non2xxFails ==
    [][ last'.op \in {"refreshFailed", "exchangeFailed"}
          => /\ sdSession' \in {sdSession, NoSession}
             /\ refreshTok' \in {refreshTok, "null"}
             /\ status' # "Connected" ]_vars

(* C14: when two widget instances on one host session refresh at the same  *)
(* time, then under every interleaving of their writes, once both are done  *)
(* the session record is the complete record one of them wrote (access      *)
(* token and expiresAt of the same response), the stored refresh token is   *)
(* one the provider honours, and both instances show Connected.             *)
BothRefreshed ==
    \A i \in Instances :
        widgets[i].pc = "done" /\ widgets[i].tokenData # NoTokenData

C15_StorageSplit ==
    DOMAIN sdSession = {"accessToken", "expiresAt", "tokenType"}

C17_ExpiryBoundary ==
    last.op = "isTokenExpired" =>
        /\ last.msg.result = (now >= sdSession.expiresAt - 300 * 1000)
        /\ now = sdSession.expiresAt - 300 * 1000 => last.msg.result
        /\ now = sdSession.expiresAt - 301 * 1000 => ~last.msg.result
        /\ now = sdSession.expiresAt - 300 * 1000 - 1 => ~last.msg.result

C17_Witness ==
    /\ last.op = "isTokenExpired"
    /\ sdSession.expiresAt = 300 * 1000
    /\ now = sdSession.expiresAt - 300 * 1000
    /\ last.msg.result

(* What each source supplies for a field, in the order of priority: the     *)
(* shared record, the widget variables, the URL's parameters, localStorage  *)
Supplied(in, field) ==
    << IF in.record = NoRecord THEN ""
       ELSE CASE field = "clientId" -> in.record.Client_Id__c
              [] field = "environment" -> in.record.Environment__c
              [] OTHER -> in.record.Redirect_Uri__c,
       IF in.widgetConfig = NoRecord THEN ""
       ELSE CASE field = "clientId" -> in.widgetConfig.client_id
              [] field = "environment" -> in.widgetConfig.environment
              [] OTHER -> in.widgetConfig.redirect_uri,
       IF in.urlParams = NoRecord THEN "" ELSE in.urlParams[field],
       IF in.stored = NoRecord THEN "" ELSE in.stored[field] >>

FirstNonEmpty(seq) ==
    IF \E k \in 1..Len(seq) : seq[k] # ""
    THEN seq[CHOOSE k \in 1..Len(seq) :
                 seq[k] # "" /\ \A j \in 1..(k - 1) : seq[j] = ""]
    ELSE ""

SourceRank(source) ==
    CASE source = "custom_module" -> 1
      [] source = "widget_variables" -> 2
      [] source = "url" -> 3
      [] OTHER -> 4

Resolved == cfgOut \notin {Pending, NoCredentials}

(* C18: whenever the shared configuration record supplies a clientId, the   *)
(* resolution yields that clientId, whatever the widget variables, the URL  *)
(* and localStorage hold; a lower source is used only when no source above  *)
(* it, in the order widget variables, URL, localStorage, supplies one.      *)
C18_SharedConfigWins ==
    /\ (cfgOut # Pending /\ Supplied(cfgIn, "clientId")[1] # "")
          => /\ Resolved
             /\ cfgOut.clientId = cfgIn.record.Client_Id__c
    /\ Resolved
          => /\ cfgOut.clientId
                  = Supplied(cfgIn, "clientId")[SourceRank(cfgOut.source)]
             /\ \A k \in 1..(SourceRank(cfgOut.source) - 1) :
                   Supplied(cfgIn, "clientId")[k] = ""

C18_Witness ==
    /\ Resolved
    /\ cfgOut.clientId = "A"
    /\ cfgIn.widgetConfig # NoRecord /\ cfgIn.widgetConfig.client_id = "B"
    /\ cfgIn.urlParams # NoRecord /\ cfgIn.urlParams.clientId = "C"
    /\ cfgIn.stored # NoRecord

\* the configuration is one that getCredentials returned
FromGetCredentials ==
    cfgOut.source \in {"custom_module", "widget_variables"}

(* C19: resolution is field by field: each of clientId, environment and     *)
(* redirectUri comes from the highest source in which that field is not     *)
(* empty, so a field the shared record lacks is filled from a lower source  *)
(* (stated for the configurations getCredentials returns).                  *)
C19_FieldByField ==
    FromGetCredentials =>
        /\ cfgOut.clientId = FirstNonEmpty(Supplied(cfgIn, "clientId"))
        /\ Or(cfgOut.redirectUri, "")
              = FirstNonEmpty(Supplied(cfgIn, "redirectUri"))
        /\ Or(cfgOut.environment, "sandbox")
              = Or(FirstNonEmpty(Supplied(cfgIn, "environment")), "sandbox")

(* C20: every configuration the resolution returns has the environment      *)
(* sandbox or production, and sandbox when no source sets one (stated for   *)
(* the configurations getCredentials returns).                              *)
C20_EnvironmentDefault ==
    FromGetCredentials =>
        /\ cfgOut.environment \in {"sandbox", "production"}
        /\ FirstNonEmpty(Supplied(cfgIn, "environment")) = ""
              => cfgOut.environment = "sandbox"

(* C21: getCredentials never returns a configuration whose clientId or      *)
(* redirectUri is empty: when either cannot be resolved from any source,    *)
(* the resolution yields no credentials instead.                            *)
C21_NoEmptyConfiguration ==
    FromGetCredentials =>
        /\ Truthy(cfgOut.clientId)
        /\ Truthy(cfgOut.redirectUri)

\* the session runs standalone, or its user is an Administrator of the host
Privileged(env) ==
    \/ env.standalone
    \/ env.sdk = "ready" /\ env.user # NoUser /\ IsAdministrator(env.user)

(* C22: in standalone mode, once saveSetupConfig has stored a configuration *)
(* with a non-empty clientId, a getCredentials call returns that            *)
(* configuration's clientId, environment and redirectUri from localStorage. *)
C22_LocalConfigResolvable ==
    \A u \in Callers :
        LET c == callers[u] IN
        (/\ last.op = "readCredentials" /\ c.got # Pending
         /\ c.env # Closed /\ c.env.standalone
         /\ c.stored # NoRecord /\ Truthy(c.stored.clientId))
            => /\ c.got # NoCredentials
               /\ c.got.clientId = c.stored.clientId
               /\ c.got.environment = c.stored.environment
               /\ c.got.redirectUri = c.stored.redirectUri

(* C23: a session inside the host whose user is not an Administrator gets   *)
(* permission denied from saveSetupConfig and deleteSetupConfig and issues  *)
(* no insert, update or delete against the setup module.                    *)
C23_WritesNeedPrivilege ==
    \A u \in Callers :
        LET c == callers[u] IN
        (c.env # Closed /\ ~c.env.standalone /\ ~Privileged(c.env))
            => /\ c.writes = 0
               /\ c.pc = "idle"
               /\ c.outcome \in {"none", "permission_denied"}

(* C24: the permission check answers yes only to a standalone session or to *)
(* an Administrator of the host; with the SDK missing, no user data or a    *)
(* failing getCurrentUser it answers no.                                    *)
C24_PermissionOnlyForAdministrators ==
    \A u \in Callers :
        LET c == callers[u] IN
        c.granted # "unknown"
            => (c.granted = "yes") = Privileged(c.env)

(* C25: the setup module holds at most one configuration record, whatever   *)
(* saves were made, overlapping ones by two administrators included.        *)
C25_SingleRecord == Len(setupRecords) <= 1

\* the two endpoint sets
SandboxHosts ==
    { "https://auth-sbx.sidedrawersbx.com",
      "https://user-api-sbx.sidedrawersbx.com",
      "https://tenants-gateway-api-sbx.sidedrawersbx.com",
      "https://api-sbx.sidedrawersbx.com" }
ProductionHosts ==
    { "https://auth.sidedrawer.com", "https://user-api.sidedrawer.com",
      "https://tenants-gateway-api.sidedrawer.com",
      "https://api.sidedrawer.com" }

(* C26: every URL requested during a page load belongs to the endpoint set  *)
(* of the configuration's environment: the production set for production,   *)
(* the sandbox set for sandbox.                                             *)
C26_EndpointsMatchEnvironment ==
    \A url \in fetched :
        url.base \in (IF cfgOut.environment = "production"
                      THEN ProductionHosts ELSE SandboxHosts)


\* C27: a signup request is sent only from the summary step, with the
\* business info valid, a price selected and at least one admin user, and
\* the wizard moves forward one step at a time.
C27_SignupOnlyFromValidSummary ==
    [][wizard # NoWizard /\ wizard' # NoWizard =>
          /\ sent'.signups > sent.signups =>
                /\ wizard.currentStep = summaryStep(wizard)
                /\ validateStep1(wizard)
                /\ wizard.selectedPrice # "null"
                /\ wizard.totalAdminUsers >= 1
          /\ wizard'.currentStep > wizard.currentStep =>
                wizard'.currentStep = wizard.currentStep + 1]_vars

\* C28: one click on Create Account starts at most one run of tenant
\* creation, and no signup request is started while loading is true.
C28_OneRunPerActivation ==
    [][wizard # NoWizard /\ wizard' # NoWizard =>
          /\ Did("clickNext") =>
                /\ sent'.runs <= sent.runs + 1
                /\ sent'.signups <= sent.signups + 1
          /\ wizard.loading /\ sent'.signups > sent.signups =>
                \A task \in tasks : task.await # "signup"]_vars

\* C29: on the summary step a payment method id is available: a selected
\* payment method or the token stored by the payment step.
C29_SummaryHasPaymentMethod ==
    wizard # NoWizard /\ wizard.currentStep = summaryStep(wizard) =>
        \/ wizard.selectedPaymentMethod # "null"
        \/ wizard.paymentMethodToken # "null"

\* C30 as stated: in one wizard session at most one customer-creation
\* request is issued, however many runs fail and are retried.
C30_AtMostOneCustomerRequest == sent.customers <= 1

\* C30: once a customer-creation request has succeeded, the customer id is
\* kept and no later run issues another customer-creation request.
C30_CustomerReusedOnceCreated ==
    [][sent'.customers > sent.customers => sent.created = 0]_vars

\* a second run has gone on to the signup request with the customer that the
\* first run created
C30_RetryReusesCustomer ==
    /\ sent.created = 1 /\ sent.customers = 1
    /\ sent.runs = 2 /\ sent.signups = 2
====
